---- MODULE Spec2Model ----
(***************************************************************************)
(* Airline network shortest paths: the Johnson all-pairs engine, the graph *)
(* builders that feed it, and the network metrics.                         *)
(*                                                                         *)
(* A graph is a networkx DiGraph.  Its dictionaries keep insertion order,  *)
(* which decides the iteration order of G.nodes(), G.edges() and of the    *)
(* adjacency of a vertex, so a graph is a record of two sequences:         *)
(*   nodes : the vertex codes, in insertion order                          *)
(*   edges : the edges [u, v, weight, airlines], in insertion order        *)
(*   operator : the 'operator' attribute of the vertices that have one     *)
(* Weights are integers (the program's are Python floats); a string is the *)
(* sequence of its characters.                                             *)
(***************************************************************************)
EXTENDS Integers, Sequences, FiniteSets, TLC

VARIABLES G, runs, metrics, airports_df, routes_df, last

vars == <<G, runs, metrics, airports_df, routes_df, last>>

\* ------------------------------------------------------------------ bounds
MaxEdges == 3
MaxW == 1
MaxCalls == 2

\* vertex codes; "q" is the code johnson_algorithm gives its auxiliary source
Codes == {"a", "b", "c", "q"}
\* the input graphs take their vertices from one of these sets
Universes == {{"a", "b", "c"}, {"a", "b", "q"}}
Weights == (0 - 1)..MaxW

\* the insertion orders the input graphs are drawn with
Orders == {<<"a", "b", "c", "q">>, <<"q", "c", "b", "a">>}

\* airline names: strings, as character sequences
Airlines == {<<"G">>, <<"G", "A">>}

\* bounds of the builder inputs
MaxRoutes == 2
MaxHubs == 3
MaxBuilderCalls == 2

\* the airport codes of the builder inputs, in the order the tables list them
AirportOrder == <<"a", "b", "c">>
Airports == {"a", "b", "c"}
\* the airports a direct import may know ("c" is then an unknown code)
ImportAirports == {"a", "b"}
\* distances of the route records, longitudes (in degrees) of the airports
Kms == {1, 2}
Lons == {0, 1}
\* the operators' airport sets build_combined_network is given: <<gol, azul>>
OperatorSplits == {<<{"a", "b"}, {"b", "c"}>>, <<{"a"}, {}>>}

None == "None"
\* no metrics asked for yet; no builder call made yet
NoMetrics == [status |-> "none"]
NoCall == [op |-> "none"]
NoStr == <<>>

\* ------------------------------------------------------- sequence helpers
Range(s) == {s[i] : i \in DOMAIN s}

RECURSIVE SumSeq(_)
SumSeq(s) == IF s = <<>> THEN 0 ELSE s[1] + SumSeq(Tail(s))

\* the members of S in the order of the sequence order
SetToSeq(order, S) == SelectSeq(order, LAMBDA x : x \in S)

\* ------------------------------------------------------------ nx.DiGraph
EmptyGraph == [nodes |-> <<>>, edges |-> <<>>, operator |-> <<>>]

NodeSet(g) == Range(g.nodes)

has_edge(g, u, v) == \E i \in DOMAIN g.edges : g.edges[i].u = u /\ g.edges[i].v = v

EdgeIndex(g, u, v) == CHOOSE i \in DOMAIN g.edges : g.edges[i].u = u /\ g.edges[i].v = v

EdgeOf(g, u, v) == g.edges[EdgeIndex(g, u, v)]

\* G.add_node(n): a vertex already present keeps its place
add_node(g, n) ==
    IF n \in NodeSet(g) THEN g ELSE [g EXCEPT !.nodes = Append(@, n)]

\* G.add_edge(u, v, weight=w): the endpoints are added when missing (u first);
\* an edge already present keeps its place and its other attributes and has
\* its weight replaced
add_edge_weight(g, u, v, w) ==
    LET g1 == add_node(add_node(g, u), v)
    IN  IF has_edge(g1, u, v)
        THEN [g1 EXCEPT !.edges[EdgeIndex(g1, u, v)].weight = w]
        ELSE [g1 EXCEPT !.edges = Append(@, [u |-> u, v |-> v, weight |-> w, airlines |-> NoStr])]

\* G.add_edge(u, v, weight=w, airlines=a): as above, both attributes replaced
add_edge(g, u, v, w, a) ==
    LET g1 == add_edge_weight(g, u, v, w)
    IN  [g1 EXCEPT !.edges[EdgeIndex(g1, u, v)].airlines = a]

\* the adjacency of u, in insertion order
Adj(g, u) == SelectSeq(g.edges, LAMBDA e : e.u = u)

RECURSIVE EdgesFrom(_, _)
\* G.edges(data=True): vertex by vertex, each vertex's adjacency in order
EdgesFrom(g, ns) ==
    IF ns = <<>> THEN <<>> ELSE Adj(g, Head(ns)) \o EdgesFrom(g, Tail(ns))

EdgeView(g) == EdgesFrom(g, g.nodes)

\* ------------------------------------------- nx bellman_ford from a source
\* one relaxation of the edge e on the distance map d (a function on the
\* vertices reached so far)
BFRelax(d, e) ==
    IF e.u \in DOMAIN d /\ (e.v \notin DOMAIN d \/ d[e.u] + e.weight < d[e.v])
    THEN (e.v :> d[e.u] + e.weight) @@ d
    ELSE d

RECURSIVE BFPass(_, _)
BFPass(d, es) == IF es = <<>> THEN d ELSE BFPass(BFRelax(d, Head(es)), Tail(es))

RECURSIVE BFIter(_, _, _)
BFIter(g, d, k) == IF k = 0 THEN d ELSE BFIter(g, BFPass(d, EdgeView(g)), k - 1)

\* nx.single_source_bellman_ford_path_length(g, source): the distance of every
\* vertex the source reaches, or NetworkXUnbounded when a negative cycle is
\* reachable from the source (a distance still improves after |V|-1 passes)
bellman_ford(g, source) ==
    LET d == BFIter(g, (source :> 0), Len(g.nodes) - 1)
    IN  [unbounded |-> BFPass(d, EdgeView(g)) # d, h |-> d]

\* ------------------------------------------------ nx single_source_dijkstra
\* the entry the heap pops: least distance, then least push counter
HeapTop(fringe) ==
    CHOOSE e \in fringe : \A f \in fringe :
        e[1] < f[1] \/ (e[1] = f[1] /\ e[2] <= f[2])

\* paths[u] = paths[v] + [u]
ExtendPath(p, u) == Append(p, u)

\* the body of "for u, e in G_succ[v].items()" for one edge v -> e.v
DijkstraRelax(st, e) ==
    LET vu_dist == st.dist[e.u] + e.weight
    IN  IF e.v \in DOMAIN st.dist
        THEN IF vu_dist < st.dist[e.v] THEN [st EXCEPT !.err = TRUE] ELSE st
        ELSE IF e.v \notin DOMAIN st.seen \/ vu_dist < st.seen[e.v]
             THEN [st EXCEPT !.seen = (e.v :> vu_dist) @@ @,
                             !.fringe = @ \cup {<<vu_dist, st.c, e.v>>},
                             !.c = @ + 1,
                             !.paths = (e.v :> ExtendPath(st.paths[e.u], e.v)) @@ @]
             ELSE st

RECURSIVE DijkstraRelaxAll(_, _)
DijkstraRelaxAll(st, es) ==
    IF es = <<>> \/ st.err THEN st
    ELSE DijkstraRelaxAll(DijkstraRelax(st, Head(es)), Tail(es))

RECURSIVE DijkstraLoop(_, _)
\* "while fringe": pop, skip a vertex already final, else fix it and relax
DijkstraLoop(g, st) ==
    IF st.fringe = {} \/ st.err THEN st
    ELSE LET top == HeapTop(st.fringe)
             st1 == [st EXCEPT !.fringe = @ \ {top}]
         IN  IF top[3] \in DOMAIN st.dist
             THEN DijkstraLoop(g, st1)
             ELSE DijkstraLoop(g,
                      DijkstraRelaxAll([st1 EXCEPT !.dist = (top[3] :> top[1]) @@ @],
                                       Adj(g, top[3])))

\* nx.single_source_dijkstra(g, source): (dist, paths) over the vertices the
\* source reaches; err is the ValueError("Contradictory paths found") raised
\* when a final distance is improved through a negative edge
single_source_dijkstra(g, source) ==
    DijkstraLoop(g, [dist |-> <<>>, seen |-> (source :> 0),
                     fringe |-> {<<0, 0, source>>}, c |-> 1,
                     paths |-> (source :> <<source>>), err |-> FALSE])

\* ------------------------------------------------------- johnson_algorithm
\* Python objects: a store maps a reference to the graph it denotes.
\* G.copy() makes a new object under a new reference.
GraphCopy(store, r) == [store |-> ("G_aux" :> store[r]) @@ store, ref |-> "G_aux"]

RECURSIVE AddAuxEdges(_, _)
\* for node in G.nodes(): G_aux.add_edge('q', node, weight=0)
AddAuxEdges(g, ns) ==
    IF ns = <<>> THEN g
    ELSE AddAuxEdges(add_edge_weight(g, "q", Head(ns), 0), Tail(ns))

\* the potentials taken the wrong way round
Reweight_swapped(w, hu, hv) == w + hv - hu

\* w_prime = w + h[u] - h[v]
Reweight(w, hu, hv) == w + hu - hv

RECURSIVE ReweightEdges(_, _, _)
\* for u, v, data in G.edges(data=True): G_reweighted.add_edge(u, v, weight=w_prime)
ReweightEdges(gr, es, h) ==
    IF es = <<>> THEN gr
    ELSE LET e == Head(es)
         IN  ReweightEdges(add_edge_weight(gr, e.u, e.v, Reweight(e.weight, h[e.u], h[e.v])),
                           Tail(es), h)

\* the correction taken the wrong way round
Correct_swapped(d, hu, hv) == d + hu - hv

\* distances[u][v] = distances[u][v] + h[v] - h[u]
Correct(d, hu, hv) == d + hv - hu

\* the reweighted edges written back into the caller's graph object
NewDiGraph_inplace(store) == [store |-> store, ref |-> "G"]

\* G_reweighted = nx.DiGraph(): a new, empty graph object
NewDiGraph(store) ==
    [store |-> ("G_reweighted" :> EmptyGraph) @@ store, ref |-> "G_reweighted"]

Failed(status, g, aux, h, gr) ==
    [status |-> status, distances |-> <<>>, paths |-> <<>>,
     h |-> h, reweighted |-> gr, G |-> g, aux |-> aux]

RECURSIVE DijkstraAll(_, _)
\* for node in G_reweighted.nodes(): d, p = nx.single_source_dijkstra(...)
DijkstraAll(gr, ns) ==
    IF ns = <<>> THEN <<>>
    ELSE (Head(ns) :> single_source_dijkstra(gr, Head(ns))) @@ DijkstraAll(gr, Tail(ns))

RECURSIVE CorrectRow(_, _, _, _)
\* the row of the source u, its entries corrected one by one
CorrectRow(d, h, u, vs) ==
    IF vs = {} THEN <<>>
    ELSE LET v == CHOOSE x \in vs : TRUE
         IN  (v :> Correct(d[v], h[u], h[v])) @@ CorrectRow(d, h, u, vs \ {v})

RECURSIVE CorrectAll(_, _, _)
\* for u in distances: for v in distances[u]: ...
CorrectAll(dj, h, ns) ==
    IF ns = <<>> THEN <<>>
    ELSE (Head(ns) :> CorrectRow(dj[Head(ns)].dist, h, Head(ns), DOMAIN dj[Head(ns)].dist))
            @@ CorrectAll(dj, h, Tail(ns))

\* the whole call: the result, with the auxiliary graph, the potentials and
\* the reweighted graph it went through, and the caller's graph object as the
\* call leaves it
johnson_algorithm(g) ==
    LET c  == GraphCopy(("G" :> g), "G")
        s1 == [c.store EXCEPT ![c.ref] = add_node(@, "q")]
        s2 == [s1 EXCEPT ![c.ref] = AddAuxEdges(@, s1["G"].nodes)]
        bf == bellman_ford(s2[c.ref], "q")
        h  == bf.h
        n  == NewDiGraph(s2)
        s3 == [n.store EXCEPT ![n.ref] = ReweightEdges(@, EdgeView(n.store["G"]), h)]
        gr == s3[n.ref]
        dj == DijkstraAll(gr, gr.nodes)
    IN  IF bf.unbounded THEN Failed("NegativeCycle", s2["G"], s2[c.ref], <<>>, EmptyGraph)
        ELSE IF \E u \in NodeSet(gr) : dj[u].err THEN Failed("ValueError", s3["G"], s2[c.ref], h, gr)
        ELSE [status |-> "ok",
              distances |-> CorrectAll(dj, h, gr.nodes),
              paths |-> [u \in NodeSet(gr) |-> dj[u].paths],
              h |-> h, reweighted |-> gr, G |-> s3["G"], aux |-> s2[c.ref]]

\* the out-degree alone, as G.out_degree would give it
Degree_out(g, n) ==
    Cardinality({i \in DOMAIN g.edges : g.edges[i].u = n})

\* ------------------------------------------------ calculate_network_metrics
Degree(g, n) ==
    Cardinality({i \in DOMAIN g.edges : g.edges[i].u = n})
      + Cardinality({i \in DOMAIN g.edges : g.edges[i].v = n})

RECURSIVE SumOver(_, _)
\* the sum of f over the set S
SumOver(f, S) ==
    IF S = {} THEN 0
    ELSE LET x == CHOOSE y \in S : TRUE IN f[x] + SumOver(f, S \ {x})

RECURSIVE WeakComponent(_, _)
\* the vertices joined to the set C by edges taken in either direction
WeakComponent(g, C) ==
    LET D == C \cup {n \in NodeSet(g) :
                        \E m \in C : has_edge(g, m, n) \/ has_edge(g, n, m)}
    IN  IF D = C THEN C ELSE WeakComponent(g, D)

\* nx.density(G): 0 when there is no edge or at most one vertex, else
\* m / (n * (n - 1)); a quotient is the pair of its terms
density(g) ==
    LET n == Len(g.nodes)
        m == Len(g.edges)
    IN  IF m = 0 \/ n <= 1 THEN [num |-> 0, den |-> 1]
        ELSE [num |-> m, den |-> n * (n - 1)]

\* nx.is_weakly_connected(G): raises NetworkXPointlessConcept on the null graph
is_weakly_connected(g) ==
    IF Len(g.nodes) = 0 THEN [raises |-> TRUE, value |-> FALSE]
    ELSE [raises |-> FALSE, value |-> WeakComponent(g, {g.nodes[1]}) = NodeSet(g)]

\* sum(dict(G.degree()).values()) / len(G.nodes())
avg_degree(g) ==
    IF Len(g.nodes) = 0 THEN [raises |-> TRUE, value |-> None]
    ELSE [raises |-> FALSE,
          value |-> [num |-> SumOver([n \in NodeSet(g) |-> Degree(g, n)], NodeSet(g)),
                     den |-> Len(g.nodes)]]

\* nx.degree_centrality(G): 1 for every vertex of a graph of at most one
\* vertex, else degree / (n - 1)
degree_centrality(g) ==
    [n \in NodeSet(g) |->
        IF Len(g.nodes) <= 1 THEN [num |-> 1, den |-> 1]
        ELSE [num |-> Degree(g, n), den |-> Len(g.nodes) - 1]]

MetricsFailed(e) == [status |-> e]

\* the average degree evaluated before the connectivity
calculate_network_metrics_avgfirst(g) ==
    IF avg_degree(g).raises THEN MetricsFailed("ZeroDivisionError")
    ELSE IF is_weakly_connected(g).raises THEN MetricsFailed("NetworkXPointlessConcept")
    ELSE [status |-> "ok"]

\* the entries of the metrics dictionary are evaluated in the order written;
\* the first that raises ends the call (betweenness and closeness centrality,
\* which cannot raise once the entries before them are through, are left out)
calculate_network_metrics(g) ==
    LET conn == is_weakly_connected(g)
        avg  == avg_degree(g)
    IN  IF conn.raises THEN MetricsFailed("NetworkXPointlessConcept")
        ELSE IF avg.raises THEN MetricsFailed("ZeroDivisionError")
        ELSE [status |-> "ok",
              num_nodes |-> Len(g.nodes),
              num_edges |-> Len(g.edges),
              density |-> density(g),
              is_connected |-> conn.value,
              avg_degree |-> avg.value,
              degree_centrality |-> degree_centrality(g)]

\* ------------------------------------------------- the input graphs of Spec
AllPairs(order) ==
    [k \in 1..(Len(order) * Len(order)) |->
        <<order[((k - 1) \div Len(order)) + 1], order[((k - 1) % Len(order)) + 1]>>]

\* the graph with vertices N and weighted edges w (a function on a set of
\* pairs), vertices and edges inserted in the order of the sequence order
MakeGraph(order, N, w) ==
    LET ps == SelectSeq(AllPairs(order), LAMBDA p : p \in DOMAIN w)
    IN  [nodes |-> SetToSeq(order, N),
         edges |-> [i \in DOMAIN ps |->
                      [u |-> ps[i][1], v |-> ps[i][2], weight |-> w[ps[i]], airlines |-> NoStr]],
         operator |-> <<>>]

Init ==
    /\ \E order \in Orders, U \in Universes : \E N \in SUBSET U :
         /\ \E E \in SUBSET (N \X N) :
              /\ Cardinality(E) <= MaxEdges
              /\ \E w \in [E -> Weights] : G = MakeGraph(order, N, w)
    /\ runs = <<>>
    /\ metrics = NoMetrics
    /\ airports_df = <<>>
    /\ routes_df = <<>>
    /\ last = NoCall

JohnsonCall ==
    /\ Len(runs) < MaxCalls
    /\ metrics = NoMetrics
    /\ \E r \in {johnson_algorithm(G)} :
           /\ runs' = Append(runs, [status |-> r.status, distances |-> r.distances,
                                    paths |-> r.paths, h |-> r.h,
                                    reweighted |-> r.reweighted,
                                    aux |-> r.aux])
           /\ G' = r.G
    /\ UNCHANGED <<metrics, airports_df, routes_df, last>>

\* metrics = calculate_network_metrics(G), before the engine is run
MetricsCall ==
    /\ metrics = NoMetrics
    /\ runs = <<>>
    /\ metrics' = calculate_network_metrics(G)
    /\ UNCHANGED <<G, runs, airports_df, routes_df, last>>

Next == JohnsonCall \/ MetricsCall

Spec == Init /\ [][Next]_vars

\* -------------------------------------------------- build_airline_network
\* an airports table with the airports N at the longitudes lon, on the equator
Table(N, lon) ==
    LET ns == SetToSeq(AirportOrder, N)
    IN  [i \in DOMAIN ns |-> [code |-> ns[i], latitude |-> 0, longitude |-> lon[ns[i]]]]

TableCodes(df) == {df[i].code : i \in DOMAIN df}

RECURSIVE AddAirportNodes(_, _)
\* for _, airport in airports_df.iterrows(): G.add_node(airport['code'], ...)
AddAirportNodes(g, rows) ==
    IF rows = <<>> THEN g ELSE AddAirportNodes(add_node(g, Head(rows).code), Tail(rows))

\* both ends known instead of either
RouteKnown_either(g, route) ==
    route.origem \in NodeSet(g) \/ route.destino \in NodeSet(g)

\* route['origem'] in G.nodes() and route['destino'] in G.nodes()
RouteKnown(g, route) ==
    route.origem \in NodeSet(g) /\ route.destino \in NodeSet(g)

RECURSIVE AddRouteEdges(_, _)
\* for _, route in routes_df.iterrows(): a known route becomes an edge
AddRouteEdges(g, rows) ==
    IF rows = <<>> THEN g
    ELSE LET route == Head(rows)
         IN  AddRouteEdges(
                 IF RouteKnown(g, route)
                 THEN add_edge(g, route.origem, route.destino,
                               route.distancia_km, route.companhias)
                 ELSE g,
                 Tail(rows))

build_airline_network(adf, rdf) ==
    AddRouteEdges(AddAirportNodes(EmptyGraph, adf), rdf)

\* ------------------------------------------------------- graph_builder.py
\* the great-circle distance of two points of the equator, in degrees of arc
\* (r * c is proportional to the difference of the longitudes there)
haversine_distance(lat1, lon1, lat2, lon2) ==
    IF lon1 >= lon2 THEN lon1 - lon2 ELSE lon2 - lon1

\* airports_df[airports_df['code'] == c].iloc[0]
Coord(df, c) ==
    df[CHOOSE i \in DOMAIN df :
          df[i].code = c /\ \A j \in 1..(i - 1) : df[j].code # c]

Distance(df, c1, c2) ==
    haversine_distance(Coord(df, c1).latitude, Coord(df, c1).longitude,
                       Coord(df, c2).latitude, Coord(df, c2).longitude)

RECURSIVE AddOperatorNodes(_, _, _, _)
\* the vertices of the combined table, each tagged with its operator(s)
AddOperatorNodes(g, rows, gol_codes, azul_codes) ==
    IF rows = <<>> THEN g
    ELSE LET c == Head(rows).code
             operator == IF c \in gol_codes /\ c \in azul_codes THEN "Both"
                         ELSE IF c \in gol_codes THEN "Gol" ELSE "Azul"
             g1 == add_node(g, c)
         IN  AddOperatorNodes([g1 EXCEPT !.operator = (c :> operator) @@ @],
                              Tail(rows), gol_codes, azul_codes)

build_combined_network(gol_codes, azul_codes, combined_airports) ==
    AddOperatorNodes(EmptyGraph, combined_airports, gol_codes, azul_codes)

\* x in s, for strings: x is a run of consecutive characters of s
IsSubstring(x, s) ==
    \E i \in 0..(Len(s) - Len(x)) : SubSeq(s, i + 1, i + Len(x)) = x

SetAirlines(g, u, v, a) == [g EXCEPT !.edges[EdgeIndex(g, u, v)].airlines = a]

\* the route added in the forward direction only
AddRoutePair_forward(g, airport1, airport2, distance, airline) ==
    add_edge(g, airport1, airport2, distance, airline)

\* G.add_edge(airport1, airport2, ...); G.add_edge(airport2, airport1, ...)
AddRoutePair(g, airport1, airport2, distance, airline) ==
    add_edge(add_edge(g, airport1, airport2, distance, airline),
             airport2, airport1, distance, airline)

\* the graph as the call leaves it; err is the KeyError of G[airport2][airport1]
\* when the edge exists in one direction only
add_bidirectional_route(g, airport1, airport2, df, airline) ==
    IF airport1 \in TableCodes(df) /\ airport2 \in TableCodes(df)
    THEN LET distance == Distance(df, airport1, airport2)
         IN  IF has_edge(g, airport1, airport2)
             THEN LET existing_airlines == EdgeOf(g, airport1, airport2).airlines
                      new_airlines == IF existing_airlines # NoStr
                                      THEN existing_airlines \o <<",">> \o airline
                                      ELSE airline
                      g1 == SetAirlines(g, airport1, airport2, new_airlines)
                  IN  IF IsSubstring(airline, existing_airlines)
                      THEN [g |-> g, err |-> FALSE]
                      ELSE IF has_edge(g1, airport2, airport1)
                           THEN [g |-> SetAirlines(g1, airport2, airport1, new_airlines),
                                 err |-> FALSE]
                           ELSE [g |-> g1, err |-> TRUE]
             ELSE [g |-> AddRoutePair(g, airport1, airport2, distance, airline),
                   err |-> FALSE]
    ELSE [g |-> g, err |-> FALSE]

\* a hub as near as the nearest so far replaces it
IsNearer_orequal(distance, m) == m.inf \/ distance <= m.distance

\* distance < min_distance, min_distance starting at float('inf')
IsNearer(distance, m) == m.inf \/ distance < m.distance

RECURSIVE NearestHubLoop(_, _, _, _, _)
\* for hub in hubs: ...
NearestHubLoop(airport, hubs, df, m, nearest_hub) ==
    IF hubs = <<>> THEN nearest_hub
    ELSE LET hub == Head(hubs)
         IN  IF hub \in TableCodes(df) /\ IsNearer(Distance(df, airport, hub), m)
             THEN NearestHubLoop(airport, Tail(hubs), df,
                                 [inf |-> FALSE, distance |-> Distance(df, airport, hub)], hub)
             ELSE NearestHubLoop(airport, Tail(hubs), df, m, nearest_hub)

find_nearest_hub(airport, hubs, df) ==
    IF airport \notin TableCodes(df) THEN None
    ELSE NearestHubLoop(airport, hubs, df, [inf |-> TRUE, distance |-> 0], None)

\* each hub paired with the next one only
HubPairs_adjacent(hubs) ==
    LET n == Len(hubs)
    IN  SelectSeq([k \in 1..(n * n) |-> <<((k - 1) \div n) + 1, ((k - 1) % n) + 1>>],
                  LAMBDA p : p[2] = p[1] + 1)

\* the pairs (hubs[i], hubs[j]), i < j, in the order of the two loops
HubPairs(hubs) ==
    LET n == Len(hubs)
    IN  SelectSeq([k \in 1..(n * n) |-> <<((k - 1) \div n) + 1, ((k - 1) % n) + 1>>],
                  LAMBDA p : p[1] < p[2])

RECURSIVE ConnectHubs(_, _, _, _, _, _)
\* "Connect hubs to each other"
ConnectHubs(r, ps, hubs, df, airline_codes, airline_name) ==
    IF ps = <<>> \/ r.err THEN r
    ELSE LET hub1 == hubs[Head(ps)[1]]
             hub2 == hubs[Head(ps)[2]]
         IN  ConnectHubs(
                 IF hub1 \in airline_codes /\ hub2 \in airline_codes
                 THEN add_bidirectional_route(r.g, hub1, hub2, df, airline_name)
                 ELSE r,
                 Tail(ps), hubs, df, airline_codes, airline_name)

RECURSIVE ConnectSpokes(_, _, _, _, _)
\* "Connect non-hub airports to nearest hub"
ConnectSpokes(r, airports, hubs, df, airline_name) ==
    IF airports = <<>> \/ r.err THEN r
    ELSE LET airport == Head(airports)
             nearest_hub == find_nearest_hub(airport, hubs, df)
         IN  ConnectSpokes(
                 IF airport \notin Range(hubs) /\ nearest_hub # None
                 THEN add_bidirectional_route(r.g, airport, nearest_hub, df, airline_name)
                 ELSE r,
                 Tail(airports), hubs, df, airline_name)

\* airline_codes is a set: its members are taken in the order of AirportOrder
add_airline_routes(g, df, airline_codes, airline_name, hubs) ==
    ConnectSpokes(
        ConnectHubs([g |-> g, err |-> FALSE], HubPairs(hubs), hubs, df,
                    airline_codes, airline_name),
        SetToSeq(AirportOrder, airline_codes), hubs, df, airline_name)

\* ------------------------------------------- direct route import: SpecImport
RouteRows ==
    [origem : Airports, destino : Airports, distancia_km : Kms, companhias : Airlines]

SeqsUpTo(S, n) == UNION {[1..k -> S] : k \in 0..n}

InitImport ==
    /\ \E N \in SUBSET ImportAirports : airports_df = Table(N, [c \in N |-> 0])
    /\ routes_df \in SeqsUpTo(RouteRows, MaxRoutes)
    /\ G = EmptyGraph
    /\ runs = <<>>
    /\ metrics = NoMetrics
    /\ last = NoCall

\* G = build_airline_network(airports_df, routes_df)
BuildAirlineNetwork ==
    /\ last = NoCall
    /\ G' = build_airline_network(airports_df, routes_df)
    /\ last' = [op |-> "build_airline_network"]
    /\ UNCHANGED <<runs, metrics, airports_df, routes_df>>

NextImport == BuildAirlineNetwork

SpecImport == InitImport /\ [][NextImport]_vars

\* ---------------------------------------------- hub-and-spoke synthesis: SpecHub
\* the hub lists: sequences of distinct airports
HubLists == {h \in SeqsUpTo(Airports, MaxHubs) :
                \A i, j \in DOMAIN h : i # j => h[i] # h[j]}

InitHub ==
    /\ \E N \in SUBSET Airports : \E lon \in [N -> Lons] : airports_df = Table(N, lon)
    /\ \E split \in OperatorSplits :
          G = build_combined_network(split[1], split[2], airports_df)
    /\ routes_df = <<>>
    /\ runs = <<>>
    /\ metrics = NoMetrics
    /\ last = NoCall

\* add_airline_routes(G, airports_df, airline_codes, airline_name, hubs) on the
\* graph build_combined_network returned
AddAirlineRoutes ==
    /\ last = NoCall
    /\ \E airline_codes \in SUBSET Airports, airline_name \in Airlines, hubs \in HubLists :
          \E r \in {add_airline_routes(G, airports_df, airline_codes, airline_name, hubs)} :
              /\ G' = r.g
              /\ last' = [op |-> "add_airline_routes", airline_codes |-> airline_codes,
                          airline_name |-> airline_name, hubs |-> hubs, err |-> r.err]
    /\ UNCHANGED <<runs, metrics, airports_df, routes_df>>

NextHub == AddAirlineRoutes

SpecHub == InitHub /\ [][NextHub]_vars

\* ------------------------------------- sequences of builder calls: SpecHubSeq
\* the graph build_combined_network returns for a table of any of the airports
\* and the two operators sharing "b"
InitHubSeq ==
    /\ \E N \in SUBSET Airports : \E lon \in [N -> Lons] : airports_df = Table(N, lon)
    /\ G = build_combined_network({"a", "b"}, {"b", "c"}, airports_df)
    /\ routes_df = <<>>
    /\ runs = <<>>
    /\ metrics = NoMetrics
    /\ last = NoCall

\* the airports of a route added on its own: any two of them, or "a" twice
DirectPairs == {p \in Airports \X Airports : p[1] # p[2]} \cup {<<"a", "a">>}

\* the number of builder calls made so far
Calls == IF last = NoCall THEN 0 ELSE last.calls

\* a call is made when none before it raised
CanCall == IF last = NoCall THEN TRUE ELSE (~last.err /\ last.calls < MaxBuilderCalls)

\* add_airline_routes(G, airports_df, airline_codes, airline_name, hubs) on the
\* graph as the calls before left it
AddAirlineRoutesSeq ==
    /\ CanCall
    /\ \E airline_codes \in SUBSET Airports, airline_name \in Airlines, hubs \in HubLists :
          \E r \in {add_airline_routes(G, airports_df, airline_codes, airline_name, hubs)} :
              /\ G' = r.g
              /\ last' = [op |-> "add_airline_routes", err |-> r.err,
                          calls |-> Calls + 1]
    /\ UNCHANGED <<runs, metrics, airports_df, routes_df>>

\* add_bidirectional_route(G, airport1, airport2, airports_df, airline) called
\* on its own
AddBidirectionalRoute ==
    /\ CanCall
    /\ \E p \in DirectPairs, airline \in Airlines :
          \E r \in {add_bidirectional_route(G, p[1], p[2], airports_df, airline)} :
              /\ G' = r.g
              /\ last' = [op |-> "add_bidirectional_route", err |-> r.err,
                          calls |-> Calls + 1]
    /\ UNCHANGED <<runs, metrics, airports_df, routes_df>>

NextHubSeq == AddAirlineRoutesSeq \/ AddBidirectionalRoute

SpecHubSeq == InitHubSeq /\ [][NextHubSeq]_vars

\* ------------------------------------------ the graph-theoretic reference
Weight(g, u, v) == EdgeOf(g, u, v).weight

RECURSIVE SimplePathsFrom(_, _)
\* the simple paths of g that extend the path p
SimplePathsFrom(g, p) ==
    {p} \cup UNION {SimplePathsFrom(g, Append(p, v)) :
                        v \in {x \in NodeSet(g) \ Range(p) : has_edge(g, p[Len(p)], x)}}

SimplePaths(g, s, t) == {p \in SimplePathsFrom(g, <<s>>) : p[Len(p)] = t}

\* the sum of the weights of the edges of the path p
PathWeight(g, p) == SumSeq([i \in 1..(Len(p) - 1) |-> Weight(g, p[i], p[i + 1])])

IsPath(g, p) == \A i \in 1..(Len(p) - 1) : has_edge(g, p[i], p[i + 1])

Reachable(g, s, t) == SimplePaths(g, s, t) # {}

Min(S) == CHOOSE x \in S : \A y \in S : x <= y

\* the least weight of the paths to t among the simple paths P from a source
LeastTo(g, P, t) == Min({PathWeight(g, p) : p \in {x \in P : x[Len(x)] = t}})

HasNegativeCycle(g) ==
    \E s \in NodeSet(g) : \E p \in SimplePathsFrom(g, <<s>>) :
        /\ has_edge(g, p[Len(p)], s)
        /\ PathWeight(g, p) + Weight(g, p[Len(p)], s) < 0

NoNegativeEdge(g) == \A i \in DOMAIN g.edges : g.edges[i].weight >= 0

Reported(r) == {<<s, t>> \in Codes \X Codes :
                    s \in DOMAIN r.distances /\ t \in DOMAIN r.distances[s]}

\* ------------------------------------------------------------------ claims
\* the result of the latest call (every call is the latest in some state)
LastRun == runs[Len(runs)]

\* C1: on a graph with no negative cycle every distance johnson_algorithm
\* reports for (s,t) is the shortest-path distance from s to t in the original
\* graph; with no negative edge the call succeeds and reports, for each of its
\* sources, the distances of plain Dijkstra on the original graph.
JohnsonDistancesExact ==
    runs # <<>> =>
        /\ (~HasNegativeCycle(G)) =>
              \A s \in DOMAIN LastRun.distances :
                  \A P \in {SimplePathsFrom(G, <<s>>)} :
                      \A t \in DOMAIN LastRun.distances[s] :
                          LastRun.distances[s][t] = LeastTo(G, P, t)
        /\ NoNegativeEdge(G) =>
              /\ LastRun.status = "ok"
              /\ \A s \in DOMAIN LastRun.distances :
                    LastRun.distances[s] = single_source_dijkstra(G, s).dist

\* a successful run on a graph with a negative edge, non-zero potentials and a
\* reported shortest path of two edges
JohnsonDistancesExactWitness ==
    /\ runs # <<>>
    /\ runs[1].status = "ok"
    /\ "q" \notin NodeSet(G)
    /\ ~NoNegativeEdge(G)
    /\ \E st \in Reported(runs[1]) :
          /\ Len(runs[1].paths[st[1]][st[2]]) = 3
          /\ runs[1].h[st[1]] # runs[1].h[st[2]]
          /\ has_edge(G, st[1], st[2])
          /\ runs[1].distances[st[1]][st[2]] < Weight(G, st[1], st[2])

\* C2: on a graph with a negative cycle johnson_algorithm fails with the
\* negative-cycle error and returns neither distances nor paths.
NegativeCycleFails ==
    \A i \in DOMAIN runs :
        HasNegativeCycle(G) =>
            /\ runs[i].status = "NegativeCycle"
            /\ runs[i].distances = <<>>
            /\ runs[i].paths = <<>>

\* C3: every reported path from s to t starts with s, ends with t, follows
\* edges of the input graph, and its original weights sum to distances[s][t].
PathValidity ==
    runs # <<>> =>
        \A st \in Reported(LastRun) :
            \A p \in {LastRun.paths[st[1]][st[2]]} :
                /\ Len(p) >= 1
                /\ p[1] = st[1]
                /\ p[Len(p)] = st[2]
                /\ IsPath(G, p)
                /\ PathWeight(G, p) = LastRun.distances[st[1]][st[2]]

\* a reported path of two edges, one of them negative
PathValidityWitness ==
    /\ runs # <<>>
    /\ \E st \in Reported(runs[1]) :
          LET p == runs[1].paths[st[1]][st[2]]
          IN  /\ Len(p) = 3
              /\ Weight(G, p[1], p[2]) < 0
              /\ Weight(G, p[2], p[3]) > 0

\* C4: distances has an entry for (s,t) exactly when t is reachable from s in
\* the input graph, every vertex (isolated ones included) reaching itself
\* with distance 0 and path [s]; paths has the same keys as distances.
OutputDomainIsReachability ==
    \A i \in DOMAIN runs :
        runs[i].status = "ok" =>
            /\ \A s \in NodeSet(G), t \in NodeSet(G) :
                  (<<s, t>> \in Reported(runs[i])) <=> Reachable(G, s, t)
            /\ \A s \in NodeSet(G) :
                  /\ <<s, s>> \in Reported(runs[i])
                  /\ runs[i].distances[s][s] = 0
                  /\ runs[i].paths[s][s] = <<s>>
            /\ DOMAIN runs[i].paths = DOMAIN runs[i].distances
            /\ \A s \in DOMAIN runs[i].paths :
                  DOMAIN runs[i].paths[s] = DOMAIN runs[i].distances[s]

\* C5: on a graph with no negative cycle every edge of the reweighted graph
\* has a weight >= 0.
ReweightedNonNegative ==
    \A i \in DOMAIN runs :
        (~HasNegativeCycle(G)) =>
            \A k \in DOMAIN runs[i].reweighted.edges :
                runs[i].reweighted.edges[k].weight >= 0

\* C10: two successive calls on the same graph return the same status,
\* distances and paths.
JohnsonIdempotent ==
    \A i \in 2..Len(runs) :
        /\ runs[i].status = runs[i - 1].status
        /\ runs[i].distances = runs[i - 1].distances
        /\ runs[i].paths = runs[i - 1].paths

\* a second successful call on a graph with a negative edge and a reported
\* path of two edges
JohnsonIdempotentWitness ==
    /\ Len(runs) = 2
    /\ runs[2].status = "ok"
    /\ ~NoNegativeEdge(G)
    /\ \E st \in Reported(runs[2]) : Len(runs[2].paths[st[1]][st[2]]) = 3

\* C9: on a graph with no vertex calculate_network_metrics fails with the
\* empty-graph error, not with a division by zero, and returns no report.
EmptyGraphMetricsFail ==
    (metrics # NoMetrics /\ NodeSet(G) = {}) =>
        /\ metrics.status = "NetworkXPointlessConcept"
        /\ DOMAIN metrics = {"status"}

\* the metrics of the graph with no vertex have been asked for
EmptyGraphMetricsFailWitness ==
    /\ metrics # NoMetrics
    /\ G.nodes = <<>>

RECURSIVE SplitComma(_, _)
\* the comma-separated parts of the string s, cur being the part under way
SplitComma(s, cur) ==
    IF s = <<>> THEN {cur}
    ELSE IF Head(s) = "," THEN {cur} \cup SplitComma(Tail(s), <<>>)
    ELSE SplitComma(Tail(s), Append(cur, Head(s)))

Labels(a) == IF a = NoStr THEN {} ELSE SplitComma(a, <<>>)

RoutesOf(u, v) ==
    {i \in DOMAIN routes_df : routes_df[i].origem = u /\ routes_df[i].destino = v}

\* C6: after the additions for a directed pair (u,v) the graph holds exactly one
\* edge u->v, its weight is the first one recorded and its operator labels are
\* the union of the labels of all the additions (here: direct route import).
EdgeMergeRule ==
    last.op = "build_airline_network" =>
        \A u \in NodeSet(G), v \in NodeSet(G) :
            RoutesOf(u, v) # {} =>
                /\ Cardinality({k \in DOMAIN G.edges :
                                   G.edges[k].u = u /\ G.edges[k].v = v}) = 1
                /\ Weight(G, u, v) = routes_df[Min(RoutesOf(u, v))].distancia_km
                /\ Labels(EdgeOf(G, u, v).airlines) =
                      {routes_df[i].companhias : i \in RoutesOf(u, v)}

\* C7: build_airline_network skips a route with an unknown end: the vertices
\* are exactly the airport codes, every edge joins two of them, every route
\* with both ends known is an edge origin->destination, and every edge comes
\* from a route in its own direction.
ImportSkipsUnknown ==
    last.op = "build_airline_network" =>
        /\ NodeSet(G) = TableCodes(airports_df)
        /\ \A k \in DOMAIN G.edges :
              /\ G.edges[k].u \in TableCodes(airports_df)
              /\ G.edges[k].v \in TableCodes(airports_df)
              /\ RoutesOf(G.edges[k].u, G.edges[k].v) # {}
        /\ \A i \in DOMAIN routes_df :
              (routes_df[i].origem \in TableCodes(airports_df)
                 /\ routes_df[i].destino \in TableCodes(airports_df))
              => has_edge(G, routes_df[i].origem, routes_df[i].destino)

\* a built network with a skipped route whose origin alone is known, and a
\* kept route whose reverse edge is absent
ImportSkipsUnknownWitness ==
    /\ last.op = "build_airline_network"
    /\ \E i \in DOMAIN routes_df :
          /\ routes_df[i].origem \in NodeSet(G)
          /\ routes_df[i].destino \notin NodeSet(G)
    /\ \E j \in DOMAIN routes_df :
          /\ routes_df[j].origem # routes_df[j].destino
          /\ has_edge(G, routes_df[j].origem, routes_df[j].destino)
          /\ ~has_edge(G, routes_df[j].destino, routes_df[j].origem)

\* the hubs of the list that the table knows
KnownHubs(hubs, df) == {i \in DOMAIN hubs : hubs[i] \in TableCodes(df)}

\* the first of the known hubs at the least distance from the airport
FirstNearest(airport, hubs, df) ==
    hubs[CHOOSE i \in KnownHubs(hubs, df) :
            /\ \A j \in KnownHubs(hubs, df) :
                  Distance(df, airport, hubs[i]) <= Distance(df, airport, hubs[j])
            /\ \A j \in KnownHubs(hubs, df) :
                  j < i => Distance(df, airport, hubs[i]) < Distance(df, airport, hubs[j])]

Neighbours(g, a) ==
    {x \in Codes : has_edge(g, a, x) \/ has_edge(g, x, a)}

\* C8: after add_airline_routes every non-hub airport of the operator that the
\* table knows, some hub being known too, is joined in both directions to the
\* first of the nearest known hubs and to no other vertex; a non-hub airport
\* is left unconnected only when it or every hub is absent from the table.
NearestHubOnly ==
    last.op = "add_airline_routes" =>
        \A a \in last.airline_codes \ Range(last.hubs) :
            IF a \in TableCodes(airports_df) /\ KnownHubs(last.hubs, airports_df) # {}
            THEN LET h == FirstNearest(a, last.hubs, airports_df)
                 IN  /\ has_edge(G, a, h)
                     /\ has_edge(G, h, a)
                     /\ Weight(G, a, h) = Distance(airports_df, a, h)
                     /\ Neighbours(G, a) \cap Range(last.hubs) = {h}
            ELSE Neighbours(G, a) = {}

\* a spoke with two known hubs at the same distance, joined to the first, and
\* the call made for it
NearestHubOnlyWitness ==
    /\ last.op = "add_airline_routes"
    /\ Len(last.hubs) = 2
    /\ \E a \in last.airline_codes \ Range(last.hubs) :
          /\ a \in TableCodes(airports_df)
          /\ Range(last.hubs) \subseteq TableCodes(airports_df)
          /\ Distance(airports_df, a, last.hubs[1]) = Distance(airports_df, a, last.hubs[2])
          /\ has_edge(G, a, last.hubs[1])
          /\ ~has_edge(G, a, last.hubs[2])

\* a spoke with two known hubs, the second strictly nearer and joined to it
NearestHubOnlyWitnessNearer ==
    /\ last.op = "add_airline_routes"
    /\ Len(last.hubs) = 2
    /\ \E a \in last.airline_codes \ Range(last.hubs) :
          /\ a \in TableCodes(airports_df)
          /\ Range(last.hubs) \subseteq TableCodes(airports_df)
          /\ Distance(airports_df, a, last.hubs[2]) < Distance(airports_df, a, last.hubs[1])
          /\ has_edge(G, a, last.hubs[2])
          /\ ~has_edge(G, a, last.hubs[1])

\* the directed edges of the graph, as pairs
EdgePairs(g) == {<<u, v>> \in NodeSet(g) \X NodeSet(g) : has_edge(g, u, v)}

\* C11 as stated: on a non-empty graph the call succeeds, 'avg_degree' is
\* (number of directed edges) / (number of vertices), the average out-degree,
\* and 'num_edges' is the number of directed edges.
AvgDegreeIsOutDegree ==
    (metrics # NoMetrics /\ G.nodes # <<>>) =>
        /\ metrics.status = "ok"
        /\ metrics.num_edges = Cardinality(EdgePairs(G))
        /\ metrics.avg_degree.num * Len(G.nodes)
              = Cardinality(EdgePairs(G)) * metrics.avg_degree.den

\* C11 amended: on a non-empty graph the call succeeds, 'avg_degree' is the
\* average total degree (in-degree plus out-degree, a self-loop counted
\* twice), i.e. 2 * (number of directed edges) / (number of vertices), and
\* 'num_edges' is the number of directed edges.
AvgDegreeIsTotalDegree ==
    (metrics # NoMetrics /\ G.nodes # <<>>) =>
        /\ metrics.status = "ok"
        /\ metrics.num_edges = Cardinality(EdgePairs(G))
        /\ metrics.avg_degree.num * Len(G.nodes)
              = 2 * Cardinality(EdgePairs(G)) * metrics.avg_degree.den

\* metrics of a graph of several vertices with a self-loop and another edge
AvgDegreeIsTotalDegreeWitness ==
    /\ metrics # NoMetrics
    /\ Len(G.nodes) >= 2
    /\ \E n \in NodeSet(G) : has_edge(G, n, n)
    /\ \E u, v \in NodeSet(G) : u # v /\ has_edge(G, u, v)
    /\ metrics.status = "ok"
    /\ metrics.avg_degree.num > 0

\* the potential of v in g under a source that is no vertex of g: the least
\* weight of a path ending in v, or 0 when none is negative
Potential(g, v) ==
    Min({0} \cup {PathWeight(g, p) :
                    p \in UNION {SimplePaths(g, s, v) : s \in NodeSet(g)}})

\* C12: for every input graph, one with a vertex 'q' included, the auxiliary
\* source is a vertex the input graph does not have, every input edge keeps
\* its weight in the auxiliary graph, the negative-cycle error is raised
\* exactly on the graphs with a negative cycle, and otherwise the call
\* succeeds with the potentials of the input graph.
AuxSourceIsFresh ==
    \A i \in DOMAIN runs :
        /\ Len(runs[i].aux.nodes) = Len(G.nodes) + 1
        /\ \A k \in DOMAIN G.edges :
              Weight(runs[i].aux, G.edges[k].u, G.edges[k].v) = G.edges[k].weight
        /\ (runs[i].status = "NegativeCycle") <=> HasNegativeCycle(G)
        /\ (~HasNegativeCycle(G)) =>
              /\ runs[i].status = "ok"
              /\ \A v \in NodeSet(G) : runs[i].h[v] = Potential(G, v)

\* the pairs of distinct hubs of the list
DistinctHubs(hubs) == {<<x, y>> \in Range(hubs) \X Range(hubs) : x # y}

BuilderSymmetry ==
    /\ \A k \in DOMAIN G.edges :
          /\ has_edge(G, G.edges[k].v, G.edges[k].u)
          /\ Weight(G, G.edges[k].v, G.edges[k].u) = G.edges[k].weight
          /\ EdgeOf(G, G.edges[k].v, G.edges[k].u).airlines = G.edges[k].airlines
    /\ IF last = NoCall THEN TRUE ELSE ~last.err

\* an edge two operators share, its string merged in both directions by a
\* later call
BuilderSymmetryWitness ==
    /\ last # NoCall
    /\ \E k \in DOMAIN G.edges :
          /\ G.edges[k].u # G.edges[k].v
          /\ G.edges[k].airlines = <<"G", ",", "G", "A">>
          /\ EdgeOf(G, G.edges[k].v, G.edges[k].u).airlines = <<"G", ",", "G", "A">>

====
